---- MODULE Spec2Model ----
(***************************************************************************)
(* Model of sqlparse.ParseMigration (src/sqlparse/sqlparse.go): the line   *)
(* by line parser that splits a migration script into statement blocks.    *)
(* Strings are sequences of one-character strings, so that HasPrefix,      *)
(* TrimSpace, Fields and endsWithSemicolon are computed on the text.       *)
(***************************************************************************)
EXTENDS Integers, Sequences, FiniteSets, TLC

VARIABLES
    LineSeparator,          \* package variable, read during a parse
    script,                 \* the lines scanner.Scan() has delivered so far
    pc,                     \* "scan" in the loop, "abort" after an error return
                            \* from the loop, "done" after the final checks
    err,                    \* the returned error kind, "" for nil
    statementBuf, conditionalBuf,
    statementEnded, ignoreSemicolons, currentDirection, isLoop, isConditional,
    UpStatements, DownStatements, DisableTransactionUp, DisableTransactionDown

vars == << LineSeparator, script, pc, err, statementBuf, conditionalBuf,
           statementEnded, ignoreSemicolons, currentDirection, isLoop,
           isConditional, UpStatements, DownStatements,
           DisableTransactionUp, DisableTransactionDown >>

---------------------------------------------------------------------------
(* Bounds *)

\* number of lines of a script drawn from all of Lines
MaxLines == 3

\* number of lines of a script drawn from StatementLines
MaxStatementLines == 5

\* number of lines of a script drawn from LoopLines
MaxLoopLines == 6

---------------------------------------------------------------------------
(* Text helpers (Go's strings package, as used by the parser) *)

NL == "\n"

IsSpace(c) == c \in {" ", "\t", "\n", "\r"}

HasPrefix(s, prefix) ==
    /\ Len(s) >= Len(prefix)
    /\ SubSeq(s, 1, Len(prefix)) = prefix

HasSuffix(s, suffix) ==
    /\ Len(s) >= Len(suffix)
    /\ SubSeq(s, Len(s) - Len(suffix) + 1, Len(s)) = suffix

TrimSpace(s) ==
    LET keep == { i \in 1..Len(s) : ~IsSpace(s[i]) }
    IN  IF keep = {} THEN << >>
        ELSE LET lo == CHOOSE i \in keep : \A j \in keep : i <= j
                 hi == CHOOSE i \in keep : \A j \in keep : j <= i
             IN  SubSeq(s, lo, hi)

\* strings.Fields / bufio.ScanWords: the maximal runs of non-space characters
RECURSIVE FieldsFrom(_, _, _)
FieldsFrom(s, i, word) ==
    IF i > Len(s)
    THEN IF word = << >> THEN << >> ELSE << word >>
    ELSE IF IsSpace(s[i])
         THEN IF word = << >>
              THEN FieldsFrom(s, i + 1, << >>)
              ELSE << word >> \o FieldsFrom(s, i + 1, << >>)
         ELSE FieldsFrom(s, i + 1, Append(word, s[i]))

Fields(s) == FieldsFrom(s, 1, << >>)

---------------------------------------------------------------------------
(* Program constants *)

sqlCmdPrefix == << "-", "-", " ", "+", "m", "i", "g", "r", "a", "t", "e", " " >>

optionNoTransaction ==
    << "n", "o", "t", "r", "a", "n", "s", "a", "c", "t", "i", "o", "n" >>

directionNone == 0
directionUp == 1
directionDown == 2

\* faulty variant: the parse starts in no direction
InitialDirection_None == directionNone

\* the direction a parse starts in
InitialDirection == directionUp

\* comment markers tested by the scan loop
CommentMark == << "-", "-", " " >>
AnnotationMark == << "-", "-", " ", "+" >>
DoubleDash == << "-", "-" >>
Semicolon == << ";" >>

\* command names
CUp == << "U", "p" >>
CDown == << "D", "o", "w", "n" >>
CStatementBegin == << "S", "t", "a", "t", "e", "m", "e", "n", "t", "B", "e", "g", "i", "n" >>
CStatementEnd == << "S", "t", "a", "t", "e", "m", "e", "n", "t", "E", "n", "d" >>
CConditionalBegin ==
    << "C", "o", "n", "d", "i", "t", "i", "o", "n", "a", "l", "B", "e", "g", "i", "n" >>
CConditionalEnd ==
    << "C", "o", "n", "d", "i", "t", "i", "o", "n", "a", "l", "E", "n", "d" >>
CLoopBegin == << "L", "o", "o", "p", "B", "e", "g", "i", "n" >>
CLoopEnd == << "L", "o", "o", "p", "E", "n", "d" >>

\* error kinds (one per error message of the source)
ErrNone == ""
ErrMalformedCommand == "MalformedCommand"
ErrNestedStatement == "NestedBlock"
ErrNestedLoop == "NestedBlock"
ErrConditionalOutsideLoop == "ConditionalOutsideLoop"
ErrUnclosedConditional == "UnclosedConditional"
ErrUnterminatedStatementBlock == "UnterminatedStatementBlock"
ErrUnterminatedLoop == "UnterminatedLoop"
ErrUnterminatedConditional == "UnterminatedConditional"
ErrNoDirectionFound == "NoDirectionFound"

errNoTerminator == "UnterminatedStatement"

---------------------------------------------------------------------------
(* endsWithSemicolon, parseCommand, HasOption *)

\* the last word before the first word that starts a double-dash comment
RECURSIVE LastCodeWord(_, _, _)
LastCodeWord(words, i, prev) ==
    IF i > Len(words) THEN prev
    ELSE IF HasPrefix(words[i], DoubleDash) THEN prev
         ELSE LastCodeWord(words, i + 1, words[i])

endsWithSemicolon(line) ==
    HasSuffix(LastCodeWord(Fields(line), 1, << >>), Semicolon)

parseCommand(line) ==
    LET fields == Fields(SubSeq(line, Len(sqlCmdPrefix) + 1, Len(line)))
    IN  IF Len(fields) = 0
        THEN [err |-> ErrMalformedCommand, Command |-> << >>, Options |-> << >>]
        ELSE [err |-> ErrNone, Command |-> fields[1], Options |-> Tail(fields)]

HasOption(cmd, opt) == \E i \in 1..Len(cmd.Options) : cmd.Options[i] = opt

---------------------------------------------------------------------------
(* The working state of one ParseMigration call, as a record *)

Cur ==
    [ statementBuf |-> statementBuf, conditionalBuf |-> conditionalBuf,
      statementEnded |-> statementEnded, ignoreSemicolons |-> ignoreSemicolons,
      currentDirection |-> currentDirection, isLoop |-> isLoop,
      isConditional |-> isConditional,
      UpStatements |-> UpStatements, DownStatements |-> DownStatements,
      DisableTransactionUp |-> DisableTransactionUp,
      DisableTransactionDown |-> DisableTransactionDown,
      err |-> ErrNone ]

migrationStatement(text, loop, conditional) ==
    [ Statement |-> text, Loop |-> loop, Conditional |-> conditional ]

---------------------------------------------------------------------------
(* The cases of the command switch; each returns the state after the case, *)
(* with err set when the case returns an error                             *)

\* faulty variant: Up does not look at the pending statement buffer
CaseUp_Unchecked(s, cmd) ==
    [s EXCEPT !.currentDirection = directionUp,
              !.DisableTransactionUp =
                  IF HasOption(cmd, optionNoTransaction) THEN TRUE ELSE @]

CaseUp(s, cmd) ==
    IF Len(TrimSpace(s.statementBuf)) > 0
    THEN [s EXCEPT !.err = errNoTerminator]
    ELSE [s EXCEPT !.currentDirection = directionUp,
                   !.DisableTransactionUp =
                       IF HasOption(cmd, optionNoTransaction) THEN TRUE ELSE @]

\* faulty variant: Down assigns the flag from its option
CaseDown_AssignsFlag(s, cmd) ==
    IF Len(TrimSpace(s.statementBuf)) > 0
    THEN [s EXCEPT !.err = errNoTerminator]
    ELSE [s EXCEPT !.currentDirection = directionDown,
                   !.DisableTransactionDown =
                       HasOption(cmd, optionNoTransaction)]

CaseDown(s, cmd) ==
    IF Len(TrimSpace(s.statementBuf)) > 0
    THEN [s EXCEPT !.err = errNoTerminator]
    ELSE [s EXCEPT !.currentDirection = directionDown,
                   !.DisableTransactionDown =
                       IF HasOption(cmd, optionNoTransaction) THEN TRUE ELSE @]

CaseStatementBegin(s) ==
    IF s.isLoop \/ s.isConditional
    THEN [s EXCEPT !.err = ErrNestedStatement]
    ELSE IF s.currentDirection # directionNone
         THEN [s EXCEPT !.ignoreSemicolons = TRUE]
         ELSE s

\* faulty variant: StatementEnd is honoured inside a loop or conditional
CaseStatementEnd_InLoop(s) ==
    IF s.currentDirection # directionNone
    THEN [s EXCEPT !.statementEnded = (s.ignoreSemicolons = TRUE),
                   !.ignoreSemicolons = FALSE]
    ELSE s

CaseStatementEnd(s) ==
    IF s.isLoop \/ s.isConditional
    THEN s
    ELSE IF s.currentDirection # directionNone
         THEN [s EXCEPT !.statementEnded = (s.ignoreSemicolons = TRUE),
                        !.ignoreSemicolons = FALSE]
         ELSE s

CaseConditionalBegin(s) ==
    IF ~s.isLoop
    THEN [s EXCEPT !.err = ErrConditionalOutsideLoop]
    ELSE [s EXCEPT !.isConditional = TRUE]

CaseConditionalEnd(s) == [s EXCEPT !.isConditional = FALSE]

\* faulty variant: LoopBegin leaves the disable-transaction flags alone
CaseLoopBegin_NoDisable(s) ==
    IF s.ignoreSemicolons
    THEN [s EXCEPT !.err = ErrNestedLoop]
    ELSE IF s.currentDirection # directionNone
         THEN [s EXCEPT !.isLoop = TRUE, !.ignoreSemicolons = TRUE]
         ELSE s

\* faulty variant: LoopBegin does not reject an open block
CaseLoopBegin_Nests(s) ==
    IF s.currentDirection # directionNone
    THEN [s EXCEPT !.isLoop = TRUE,
                   !.ignoreSemicolons = TRUE,
                   !.DisableTransactionUp =
                       IF s.currentDirection = directionUp THEN TRUE ELSE @,
                   !.DisableTransactionDown =
                       IF s.currentDirection = directionDown THEN TRUE ELSE @]
    ELSE s

\* faulty variant: LoopBegin disables the Up transaction in either direction
CaseLoopBegin_AlwaysUp(s) ==
    IF s.ignoreSemicolons
    THEN [s EXCEPT !.err = ErrNestedLoop]
    ELSE IF s.currentDirection # directionNone
         THEN [s EXCEPT !.isLoop = TRUE,
                        !.ignoreSemicolons = TRUE,
                        !.DisableTransactionUp = TRUE]
         ELSE s

CaseLoopBegin(s) ==
    IF s.ignoreSemicolons
    THEN [s EXCEPT !.err = ErrNestedLoop]
    ELSE IF s.currentDirection # directionNone
         THEN [s EXCEPT !.isLoop = TRUE,
                        !.ignoreSemicolons = TRUE,
                        !.DisableTransactionUp =
                            IF s.currentDirection = directionUp THEN TRUE ELSE @,
                        !.DisableTransactionDown =
                            IF s.currentDirection = directionDown THEN TRUE ELSE @]
         ELSE s

\* faulty variant: LoopEnd does not look at the open conditional
CaseLoopEnd_Unchecked(s) ==
    IF ~s.isLoop
    THEN s
    ELSE IF s.currentDirection # directionNone
         THEN [s EXCEPT !.statementEnded = (s.ignoreSemicolons = TRUE),
                        !.ignoreSemicolons = FALSE]
         ELSE s

CaseLoopEnd(s) ==
    IF s.isConditional
    THEN [s EXCEPT !.err = ErrUnclosedConditional]
    ELSE IF ~s.isLoop
         THEN s
         ELSE IF s.currentDirection # directionNone
              THEN [s EXCEPT !.statementEnded = (s.ignoreSemicolons = TRUE),
                             !.ignoreSemicolons = FALSE]
              ELSE s

\* "handle any migrate-specific commands"
HandleCommand(s, line) ==
    IF ~HasPrefix(line, sqlCmdPrefix)
    THEN s
    ELSE LET cmd == parseCommand(line)
         IN  IF cmd.err # ErrNone
             THEN [s EXCEPT !.err = cmd.err]
             ELSE CASE cmd.Command = CUp -> CaseUp(s, cmd)
                    [] cmd.Command = CDown -> CaseDown(s, cmd)
                    [] cmd.Command = CStatementBegin -> CaseStatementBegin(s)
                    [] cmd.Command = CStatementEnd -> CaseStatementEnd(s)
                    [] cmd.Command = CConditionalBegin -> CaseConditionalBegin(s)
                    [] cmd.Command = CConditionalEnd -> CaseConditionalEnd(s)
                    [] cmd.Command = CLoopBegin -> CaseLoopBegin(s)
                    [] cmd.Command = CLoopEnd -> CaseLoopEnd(s)
                    [] OTHER -> s

---------------------------------------------------------------------------
(* Text accumulation and flush *)

isLineSeparator(s, line) ==
    ~s.ignoreSemicolons /\ Len(LineSeparator) > 0 /\ line = LineSeparator

\* faulty variant: the general append also runs inside a loop
AppendQuery_AlsoInLoop(s, line) ==
    IF ~isLineSeparator(s, line) /\ ~HasPrefix(line, AnnotationMark)
    THEN [s EXCEPT !.statementBuf = @ \o line \o << NL >>]
    ELSE s

\* "Append additional query text to query buffer"
AppendQuery(s, line) ==
    IF ~isLineSeparator(s, line) /\ ~HasPrefix(line, AnnotationMark) /\ ~s.isLoop
    THEN [s EXCEPT !.statementBuf = @ \o line \o << NL >>]
    ELSE s

\* "Inside a loop need to pick query v. conditional text"
AppendLoop(s, line) ==
    IF s.isLoop
    THEN IF s.isConditional
         THEN [s EXCEPT !.conditionalBuf = @ \o line \o << NL >>]
         ELSE [s EXCEPT !.statementBuf = @ \o line \o << NL >>]
    ELSE s

\* faulty variant: a semicolon or separator line ends a statement inside a
\* block too
FlushCondition_InsideBlock(s, line, sep) ==
    \/ endsWithSemicolon(line) \/ sep
    \/ s.statementEnded

\* the condition under which the buffers are wrapped up into a statement
FlushCondition(s, line, sep) ==
    \/ ~s.ignoreSemicolons /\ (endsWithSemicolon(line) \/ sep)
    \/ s.statementEnded

\* faulty variant: the statement buffer is not reset after a flush
Flush_KeepsBuffer(s) ==
    LET newStatement ==
            migrationStatement(s.statementBuf, s.isLoop, s.conditionalBuf)
        emitted ==
            IF s.currentDirection = directionUp
            THEN [s EXCEPT !.UpStatements = Append(@, newStatement)]
            ELSE [s EXCEPT !.DownStatements = Append(@, newStatement)]
    IN  [emitted EXCEPT !.statementEnded = FALSE,
                        !.isLoop = FALSE,
                        !.conditionalBuf = << >>]

\* faulty variant: the conditional buffer is not reset after a flush
Flush_KeepsConditional(s) ==
    LET newStatement ==
            migrationStatement(s.statementBuf, s.isLoop, s.conditionalBuf)
        emitted ==
            IF s.currentDirection = directionUp
            THEN [s EXCEPT !.UpStatements = Append(@, newStatement)]
            ELSE [s EXCEPT !.DownStatements = Append(@, newStatement)]
    IN  [emitted EXCEPT !.statementEnded = FALSE,
                        !.isLoop = FALSE,
                        !.statementBuf = << >>]

\* faulty variant: isLoop is not cleared after a flush
Flush_LeavesLoop(s) ==
    LET newStatement ==
            migrationStatement(s.statementBuf, s.isLoop, s.conditionalBuf)
        emitted ==
            IF s.currentDirection = directionUp
            THEN [s EXCEPT !.UpStatements = Append(@, newStatement)]
            ELSE [s EXCEPT !.DownStatements = Append(@, newStatement)]
    IN  [emitted EXCEPT !.statementEnded = FALSE,
                        !.statementBuf = << >>,
                        !.conditionalBuf = << >>]

\* faulty variant: the flush does not clear statementEnded
Flush_KeepsEnded(s) ==
    LET newStatement ==
            migrationStatement(s.statementBuf, s.isLoop, s.conditionalBuf)
        emitted ==
            IF s.currentDirection = directionUp
            THEN [s EXCEPT !.UpStatements = Append(@, newStatement)]
            ELSE [s EXCEPT !.DownStatements = Append(@, newStatement)]
    IN  [emitted EXCEPT !.isLoop = FALSE,
                        !.statementBuf = << >>,
                        !.conditionalBuf = << >>]

Flush(s) ==
    LET newStatement ==
            migrationStatement(s.statementBuf, s.isLoop, s.conditionalBuf)
        emitted ==
            IF s.currentDirection = directionUp
            THEN [s EXCEPT !.UpStatements = Append(@, newStatement)]
            ELSE [s EXCEPT !.DownStatements = Append(@, newStatement)]
    IN  [emitted EXCEPT !.statementEnded = FALSE,
                        !.isLoop = FALSE,
                        !.statementBuf = << >>,
                        !.conditionalBuf = << >>]

IsPlainComment(line) ==
    HasPrefix(line, CommentMark) /\ ~HasPrefix(line, AnnotationMark)

\* faulty variant: the flush runs before the line is accumulated
LoopBody_FlushFirst(s, line) ==
    IF IsPlainComment(line)
    THEN s
    ELSE LET c == HandleCommand(s, line)
         IN  IF c.err # ErrNone \/ c.currentDirection = directionNone
             THEN c
             ELSE LET sep == isLineSeparator(c, line)
                      f == IF FlushCondition(c, line, sep) THEN Flush(c) ELSE c
                  IN  AppendLoop(AppendQuery(f, line), line)

\* faulty variant: a plain comment is skipped only outside loops
LoopBody_SkipsOutsideLoop(s, line) ==
    IF IsPlainComment(line) /\ ~s.isLoop
    THEN s
    ELSE LET c == HandleCommand(s, line)
         IN  IF c.err # ErrNone \/ c.currentDirection = directionNone
             THEN c
             ELSE LET sep == isLineSeparator(c, line)
                      a == AppendLoop(AppendQuery(c, line), line)
                  IN  IF FlushCondition(a, line, sep) THEN Flush(a) ELSE a

\* one iteration of the scan loop on one line
LoopBody(s, line) ==
    IF IsPlainComment(line)
    THEN s
    ELSE LET c == HandleCommand(s, line)
         IN  IF c.err # ErrNone \/ c.currentDirection = directionNone
             THEN c
             ELSE LET sep == isLineSeparator(c, line)
                      a == AppendLoop(AppendQuery(c, line), line)
                  IN  IF FlushCondition(a, line, sep) THEN Flush(a) ELSE a

\* faulty variant: the final checks do not look at the leftover text
Finish_NoLeftoverCheck(s) ==
    IF s.ignoreSemicolons THEN ErrUnterminatedStatementBlock
    ELSE IF s.isLoop THEN ErrUnterminatedLoop
    ELSE IF s.isConditional THEN ErrUnterminatedConditional
    ELSE IF s.currentDirection = directionNone THEN ErrNoDirectionFound
    ELSE ErrNone

\* the checks after the loop: "diagnose likely migration script errors"
Finish(s) ==
    IF s.ignoreSemicolons THEN ErrUnterminatedStatementBlock
    ELSE IF s.isLoop THEN ErrUnterminatedLoop
    ELSE IF s.isConditional THEN ErrUnterminatedConditional
    ELSE IF s.currentDirection = directionNone THEN ErrNoDirectionFound
    ELSE IF /\ Len(TrimSpace(s.statementBuf)) > 0
            /\ ~HasPrefix(s.statementBuf, AnnotationMark)
         THEN errNoTerminator
    ELSE ErrNone

---------------------------------------------------------------------------
(* Inputs: the lines a script is made of *)

Cmd(name) == sqlCmdPrefix \o name
CmdOpt(name, opt) == sqlCmdPrefix \o name \o << " " >> \o opt

LineUp == Cmd(CUp)
LineUpNoTx == CmdOpt(CUp, optionNoTransaction)
LineDown == Cmd(CDown)
LineDownNoTx == CmdOpt(CDown, optionNoTransaction)
LineStatementBegin == Cmd(CStatementBegin)
LineStatementEnd == Cmd(CStatementEnd)
LineLoopBegin == Cmd(CLoopBegin)
LineLoopEnd == Cmd(CLoopEnd)
LineConditionalBegin == Cmd(CConditionalBegin)
LineConditionalEnd == Cmd(CConditionalEnd)
LineUnknown == Cmd(<< "F", "o", "o" >>)
LineNoCommand == sqlCmdPrefix

LineSql == << "a", ";" >>                            \* a; 
LineOpen == << "b" >>                                \* b      (no semicolon)
LineBlank == << " " >>
LineComment == << "-", "-", " ", "c" >>              \* -- c   (plain comment)
LineAnnot == << "-", "-", " ", "+", "x" >>           \* -- +x  (not a command)
LineSemiComment == << "a", ";", " ", "-", "-", "c" >> \* a; --c
LineCommentSemi == << "b", " ", "-", "-", "c", ";" >> \* b --c;
LineGo == << "G", "O" >>
LineDashes == << "-", "-", "x" >>                    \* --x   (no space)

CommandLines ==
    { LineUp, LineUpNoTx, LineDown, LineDownNoTx, LineStatementBegin,
      LineStatementEnd, LineLoopBegin, LineLoopEnd, LineConditionalBegin,
      LineConditionalEnd, LineUnknown, LineNoCommand }

ContentLines ==
    { LineSql, LineOpen, LineBlank, LineComment, LineAnnot, LineSemiComment,
      LineCommentSemi, LineGo, LineDashes }

Lines == CommandLines \cup ContentLines

LineSeparators == { << >>, LineGo }

---------------------------------------------------------------------------
(* The state machine *)

Init ==
    /\ LineSeparator \in LineSeparators
    /\ script = << >>
    /\ pc = "scan"
    /\ err = ErrNone
    /\ statementBuf = << >>
    /\ conditionalBuf = << >>
    /\ statementEnded = FALSE
    /\ ignoreSemicolons = FALSE
    /\ currentDirection = InitialDirection
    /\ isLoop = FALSE
    /\ isConditional = FALSE
    /\ UpStatements = << >>
    /\ DownStatements = << >>
    /\ DisableTransactionUp = FALSE
    /\ DisableTransactionDown = FALSE

\* scanner.Scan() delivers `line` and the loop body runs on it
ScanLine(line) ==
    /\ pc = "scan"
    /\ script' = Append(script, line)
    /\ \E n \in { LoopBody(Cur, line) } :
           /\ pc' = IF n.err # ErrNone THEN "abort" ELSE "scan"
           /\ err' = n.err
           /\ statementBuf' = n.statementBuf
           /\ conditionalBuf' = n.conditionalBuf
           /\ statementEnded' = n.statementEnded
           /\ ignoreSemicolons' = n.ignoreSemicolons
           /\ currentDirection' = n.currentDirection
           /\ isLoop' = n.isLoop
           /\ isConditional' = n.isConditional
           /\ UpStatements' = n.UpStatements
           /\ DownStatements' = n.DownStatements
           /\ DisableTransactionUp' = n.DisableTransactionUp
           /\ DisableTransactionDown' = n.DisableTransactionDown
    /\ UNCHANGED LineSeparator

\* scanner.Scan() returns false: the final checks decide the result
EndOfInput ==
    /\ pc = "scan"
    /\ pc' = "done"
    /\ err' = Finish(Cur)
    /\ UNCHANGED << LineSeparator, script, statementBuf, conditionalBuf,
                    statementEnded, ignoreSemicolons, currentDirection, isLoop,
                    isConditional, UpStatements, DownStatements,
                    DisableTransactionUp, DisableTransactionDown >>

Next ==
    \/ \E line \in Lines : Len(script) < MaxLines /\ ScanLine(line)
    \/ EndOfInput

Spec == Init /\ [][Next]_vars

\* Scripts of plain statements and explicit statement blocks
StatementLines ==
    { LineUp, LineDown, LineStatementBegin, LineStatementEnd, LineSql,
      LineOpen, LineCommentSemi, LineGo }

NextStatements ==
    \/ \E line \in StatementLines :
           Len(script) < MaxStatementLines /\ ScanLine(line)
    \/ EndOfInput

SpecStatements == Init /\ [][NextStatements]_vars

\* Scripts of loops and conditionals, with no line separator configured
LoopLines ==
    { LineDown, LineUpNoTx, LineLoopBegin, LineLoopEnd, LineConditionalBegin,
      LineConditionalEnd, LineSql, LineOpen }

InitLoops == Init /\ LineSeparator = << >>

NextLoops ==
    \/ \E line \in LoopLines : Len(script) < MaxLoopLines /\ ScanLine(line)
    \/ EndOfInput

SpecLoops == InitLoops /\ [][NextLoops]_vars

---------------------------------------------------------------------------
(* Reading the script: what the lines delivered so far say *)

Last(s) == s[Len(s)]

\* this step ran the loop body on one more line
Scanned == pc = "scan" /\ Len(script') = Len(script) + 1

\* the line the step ran on
ScannedLine == Last(script')

\* the step appended exactly `block` to the sequence of direction `dir`
EmittedOne(dir, block) ==
    IF dir = directionUp
    THEN UpStatements' = Append(UpStatements, block)
         /\ DownStatements' = DownStatements
    ELSE DownStatements' = Append(DownStatements, block)
         /\ UpStatements' = UpStatements

EmittedNone == UpStatements' = UpStatements /\ DownStatements' = DownStatements

\* a LoopBegin with no LoopEnd after it
LoopOpenIn(lines) ==
    \E i \in 1..Len(lines) :
        /\ lines[i] = LineLoopBegin
        /\ \A j \in (i + 1)..Len(lines) : lines[j] # LineLoopEnd

\* a StatementBegin with no StatementEnd after it
BlockOpenIn(lines) ==
    \E i \in 1..Len(lines) :
        /\ lines[i] = LineStatementBegin
        /\ \A j \in (i + 1)..Len(lines) : lines[j] # LineStatementEnd

\* the statements a script of plain lines splits into: each runs up to and
\* including the next line that ends with a semicolon
RECURSIVE SplitFrom(_, _, _)
SplitFrom(lines, i, text) ==
    IF i > Len(lines) THEN << >>
    ELSE IF IsPlainComment(lines[i]) THEN SplitFrom(lines, i + 1, text)
    ELSE IF endsWithSemicolon(lines[i])
         THEN << text \o lines[i] \o << NL >> >> \o SplitFrom(lines, i + 1, << >>)
         ELSE SplitFrom(lines, i + 1, text \o lines[i] \o << NL >>)

---------------------------------------------------------------------------
(* C1 *)

\* one Up command, then statement lines only, the last of them terminated
UpOnlyScript ==
    /\ LineSeparator = << >>
    /\ Len(script) >= 1
    /\ script[1] \in { LineUp, LineUpNoTx }
    /\ \A i \in 2..Len(script) : ~HasPrefix(script[i], AnnotationMark)
    /\ Len(script) > 1 => endsWithSemicolon(Last(script))

\* C1: a script of one Up command followed by N semicolon-terminated
\* statements, with no separator configured, parses without error into
\* exactly those N statements as UpStatements, in source order, none of them
\* a loop, and into no DownStatements.
C1_UpStatementsInOrder ==
    (pc = "done" /\ UpOnlyScript) =>
        LET expected == SplitFrom(script, 2, << >>)
        IN  /\ err = ErrNone
            /\ Len(UpStatements) = Len(expected)
            /\ \A k \in 1..Len(expected) :
                   UpStatements[k] = migrationStatement(expected[k], FALSE, << >>)
            /\ DownStatements = << >>

C1_Witness ==
    /\ pc = "done"
    /\ UpOnlyScript
    /\ err = ErrNone
    /\ Len(UpStatements) = 3
    /\ UpStatements[2].Statement # UpStatements[3].Statement
    /\ \E k \in 1..3 : Len(UpStatements[k].Statement) > Len(LineCommentSemi) + 1

---------------------------------------------------------------------------
(* C2 *)

\* inside an accepted StatementBegin, outside any loop
InStatementBlock == pc = "scan" /\ ignoreSemicolons /\ ~isLoop

IsContentLine(line) == ~IsPlainComment(line) /\ ~HasPrefix(line, AnnotationMark)

\* C2: while an explicit statement block is open, a line other than
\* StatementEnd emits no block and, when it is a content line (a semicolon
\* line and the separator line included), is appended whole to the statement
\* buffer; the StatementEnd line emits exactly one block, whose text is that
\* buffer, so it holds every content line of the region un-split.
C2_StatementBlockUnsplit ==
    [][ (InStatementBlock /\ Len(script') = Len(script) + 1) =>
            IF pc' = "abort"
            THEN EmittedNone
            ELSE IF ScannedLine = LineStatementEnd
                 THEN /\ EmittedOne(currentDirection,
                                    migrationStatement(statementBuf, FALSE, << >>))
                      /\ ~ignoreSemicolons'
                 ELSE /\ EmittedNone
                      /\ ignoreSemicolons'
                      /\ statementBuf' =
                             IF IsContentLine(ScannedLine)
                             THEN statementBuf \o ScannedLine \o << NL >>
                             ELSE statementBuf
      ]_vars

C2_Witness ==
    /\ pc = "scan"
    /\ LineSeparator = LineGo
    /\ script = << LineStatementBegin, LineSql, LineGo, LineSql, LineStatementEnd >>
    /\ Len(UpStatements) = 1
    /\ UpStatements[1].Statement =
           LineSql \o << NL >> \o LineGo \o << NL >> \o LineSql \o << NL >>

---------------------------------------------------------------------------
(* C3 *)

IsQueryLine(line) == ~HasPrefix(line, DoubleDash)

\* the lines from the last LoopBegin on
LoopRegion(lines) ==
    LET starts == { i \in 1..Len(lines) : lines[i] = LineLoopBegin }
    IN  IF starts = {} THEN << >>
        ELSE SubSeq(lines, CHOOSE i \in starts : \A j \in starts : j <= i,
                    Len(lines))

\* LoopBegin / ConditionalBegin / query lines / ConditionalEnd / SQL / LoopEnd
IsLoopRegion(region) ==
    /\ Len(region) >= 6
    /\ region[1] = LineLoopBegin
    /\ region[2] = LineConditionalBegin
    /\ region[Len(region)] = LineLoopEnd
    /\ \E c \in 4..(Len(region) - 2) :
           /\ region[c] = LineConditionalEnd
           /\ \A j \in 3..(Len(region) - 1) : j # c => IsQueryLine(region[j])

StatementsOf(dir) == IF dir = directionUp THEN UpStatements ELSE DownStatements

DisableTransactionOf(dir) ==
    IF dir = directionUp THEN DisableTransactionUp ELSE DisableTransactionDown

\* C3 (steps): no line that leaves the parser inside a loop, or that fails,
\* emits a block; the LoopEnd that completes a region LoopBegin /
\* ConditionalBegin / query lines / ConditionalEnd / SQL lines / LoopEnd
\* appends exactly one block, to the current direction, with Loop = TRUE and
\* a non-empty Conditional, and that direction's disable-transaction flag is
\* then true.
C3_LoopStep ==
    Scanned =>
        /\ (isLoop' \/ pc' = "abort") => EmittedNone
        /\ (pc' = "scan" /\ IsLoopRegion(LoopRegion(script'))) =>
               /\ Len(StatementsOf(currentDirection)') =
                      Len(StatementsOf(currentDirection)) + 1
               /\ EmittedOne(currentDirection,
                             Last(StatementsOf(currentDirection)'))
               /\ Last(StatementsOf(currentDirection)').Loop = TRUE
               /\ Last(StatementsOf(currentDirection)').Conditional # << >>
               /\ DisableTransactionOf(currentDirection)'
               /\ currentDirection' = currentDirection

\* C3 (result): in a returned document a direction that holds a loop block
\* has its disable-transaction flag set, whatever options were given.
C3_LoopResult ==
    (pc = "done" /\ err = ErrNone) =>
        \A dir \in { directionUp, directionDown } :
            (\E k \in 1..Len(StatementsOf(dir)) : StatementsOf(dir)[k].Loop)
                => DisableTransactionOf(dir)

\* C3: a loop region with a conditional produces exactly one block, emitted
\* at LoopEnd, with Loop = TRUE and a non-empty Conditional, and forces the
\* direction's disable-transaction flag in the returned document.
C3_LoopRegionOneBlock == [][C3_LoopStep]_vars /\ []C3_LoopResult

C3_Witness ==
    /\ pc = "done"
    /\ err = ErrNone
    /\ script = << LineLoopBegin, LineConditionalBegin, LineSql,
                   LineConditionalEnd, LineOpen, LineLoopEnd >>
    /\ Len(UpStatements) = 1
    /\ UpStatements[1].Loop
    /\ UpStatements[1].Conditional # << >>
    /\ DisableTransactionUp
    /\ ~DisableTransactionDown

---------------------------------------------------------------------------
(* C4 *)

DirectionLines == { LineUp, LineUpNoTx, LineDown, LineDownNoTx }

NoDirectionCommand(lines) ==
    \A i \in 1..Len(lines) : lines[i] \notin DirectionLines

\* C4 as claimed: a script of some lines, none of them an Up or Down command,
\* fails with NoDirectionFound.
C4_NoDirectionFails ==
    (pc = "done" /\ Len(script) > 0 /\ NoDirectionCommand(script)) =>
        err = ErrNoDirectionFound

\* C4 as amended: the direction starts at Up and is never None, so a script
\* with no Up and no Down command is read as an Up section: its blocks go to
\* UpStatements, the Down side stays empty, and no parse ends with
\* NoDirectionFound.
C4_DefaultsToUp ==
    /\ currentDirection # directionNone
    /\ err # ErrNoDirectionFound
    /\ NoDirectionCommand(script) =>
           /\ currentDirection = directionUp
           /\ DownStatements = << >>
           /\ ~DisableTransactionDown
    /\ (pc = "done" /\ NoDirectionCommand(script) /\ Len(script) > 0
           /\ \A i \in 1..Len(script) : script[i] = LineSql) =>
           /\ err = ErrNone
           /\ Len(UpStatements) = Len(script)

C4_Witness ==
    /\ pc = "done"
    /\ script = << LineSql, LineSql >>
    /\ err = ErrNone
    /\ Len(UpStatements) = 2
    /\ DownStatements = << >>

---------------------------------------------------------------------------
(* C5 *)

\* the statement buffer holds text: not blank, and not an annotation comment
LeftoverText ==
    /\ Len(TrimSpace(statementBuf)) > 0
    /\ ~HasPrefix(statementBuf, AnnotationMark)

NoBlockOpen == ~ignoreSemicolons /\ ~isLoop /\ ~isConditional

---------------------------------------------------------------------------
(* C6 *)

\* C6: an Up or Down command met while the statement buffer holds
\* non-blank text fails with UnterminatedStatement; otherwise it sets the
\* direction, sets that direction's disable-transaction flag when it carries
\* notransaction and leaves it as it was when not, and changes neither the
\* other direction's flag nor the emitted sequences.
C6_DirectionSwitch ==
    [][ (Scanned
             /\ ScannedLine \in DirectionLines) =>
            IF Len(TrimSpace(statementBuf)) > 0
            THEN pc' = "abort" /\ err' = errNoTerminator
            ELSE /\ pc' = "scan"
                 /\ err' = ErrNone
                 /\ EmittedNone
                 /\ IF ScannedLine \in { LineUp, LineUpNoTx }
                    THEN /\ currentDirection' = directionUp
                         /\ DisableTransactionUp' =
                                (DisableTransactionUp \/ ScannedLine = LineUpNoTx)
                         /\ DisableTransactionDown' = DisableTransactionDown
                    ELSE /\ currentDirection' = directionDown
                         /\ DisableTransactionDown' =
                                (DisableTransactionDown \/ ScannedLine = LineDownNoTx)
                         /\ DisableTransactionUp' = DisableTransactionUp
      ]_vars

C6_Witness ==
    /\ pc = "scan"
    /\ script = << LineUpNoTx, LineSql, LineDown >>
    /\ currentDirection = directionDown
    /\ DisableTransactionUp
    /\ ~DisableTransactionDown
    /\ Len(UpStatements) = 1

C6_WitnessAbort ==
    /\ pc = "abort"
    /\ err = errNoTerminator
    /\ script = << LineOpen, LineDown >>

---------------------------------------------------------------------------
(* C7 *)

\* C7: when the input ends with a block open, the parse fails with the error
\* of that block: UnterminatedStatementBlock for a StatementBegin with no
\* StatementEnd, UnterminatedLoop for a LoopBegin with no LoopEnd,
\* UnterminatedConditional for a ConditionalBegin with no ConditionalEnd.
C7_OpenBlockError ==
    pc = "done" =>
        /\ (ignoreSemicolons /\ ~isLoop) => err = ErrUnterminatedStatementBlock
        /\ (isLoop /\ ~isConditional) => err = ErrUnterminatedLoop
        /\ isConditional => err = ErrUnterminatedConditional

---------------------------------------------------------------------------
(* C8 *)

\* C8: a ConditionalBegin met while the script has no open loop (no
\* LoopBegin yet, or a LoopEnd after the last one) fails with
\* ConditionalOutsideLoop and emits nothing.
C8_ConditionalOutsideLoop ==
    [][ (Scanned
             /\ ScannedLine = LineConditionalBegin
             /\ ~LoopOpenIn(script)) =>
            /\ pc' = "abort"
            /\ err' = ErrConditionalOutsideLoop
            /\ EmittedNone
      ]_vars

C8_Witness ==
    /\ pc = "abort"
    /\ err = ErrConditionalOutsideLoop
    /\ script = << LineLoopBegin, LineConditionalBegin, LineSql,
                   LineConditionalEnd, LineLoopEnd, LineConditionalBegin >>

---------------------------------------------------------------------------
(* C9 *)

\* C9 (steps): a StatementBegin met inside an open loop, and a LoopBegin met
\* inside an open loop or an open statement block, fail with NestedBlock.
C9_NestedStep ==
    Scanned =>
        /\ (ScannedLine = LineStatementBegin /\ LoopOpenIn(script)) =>
               pc' = "abort" /\ err' = ErrNestedStatement
        /\ (ScannedLine = LineLoopBegin
                /\ (LoopOpenIn(script) \/ BlockOpenIn(script))) =>
               pc' = "abort" /\ err' = ErrNestedLoop

\* C9 (states): while scanning, a loop and a statement block are never open
\* together, an open conditional lies inside an open loop, and the flags say
\* what the script says.
C9_NeverNested ==
    pc = "scan" =>
        /\ ~(LoopOpenIn(script) /\ BlockOpenIn(script))
        /\ isLoop <=> LoopOpenIn(script)
        /\ (ignoreSemicolons /\ ~isLoop) <=> BlockOpenIn(script)
        /\ isConditional => isLoop

\* C9: blocks never nest.
C9_BlocksNeverNest == [][C9_NestedStep]_vars /\ []C9_NeverNested

C9_Witness ==
    /\ pc = "abort"
    /\ err = ErrNestedLoop
    /\ script = << LineStatementBegin, LineSql, LineLoopBegin >>

C9_WitnessStatement ==
    /\ pc = "abort"
    /\ err = ErrNestedStatement
    /\ script = << LineLoopBegin, LineConditionalBegin, LineStatementBegin >>

---------------------------------------------------------------------------
(* C10 *)

\* the direction in force when line i of the script is read
RECURSIVE DirectionBefore(_, _)
DirectionBefore(lines, i) ==
    IF i <= 1 THEN InitialDirection
    ELSE IF lines[i - 1] \in { LineUp, LineUpNoTx } THEN directionUp
    ELSE IF lines[i - 1] \in { LineDown, LineDownNoTx } THEN directionDown
    ELSE DirectionBefore(lines, i - 1)

LoopBeganIn(lines, dir) ==
    \E i \in 1..Len(lines) :
        lines[i] = LineLoopBegin /\ DirectionBefore(lines, i) = dir

\* C10: in a returned document DisableTransactionUp is true exactly when an
\* Up command carried notransaction or a LoopBegin was accepted while the
\* direction was Up, and DisableTransactionDown likewise with Down.
C10_DisableFlags ==
    (pc = "done" /\ err = ErrNone) =>
        /\ DisableTransactionUp <=>
               \/ \E i \in 1..Len(script) : script[i] = LineUpNoTx
               \/ LoopBeganIn(script, directionUp)
        /\ DisableTransactionDown <=>
               \/ \E i \in 1..Len(script) : script[i] = LineDownNoTx
               \/ LoopBeganIn(script, directionDown)

C10_Witness ==
    /\ pc = "done"
    /\ err = ErrNone
    /\ script = << LineDown, LineLoopBegin, LineLoopEnd >>
    /\ DisableTransactionDown
    /\ ~DisableTransactionUp

---------------------------------------------------------------------------
(* C11 *)

AllStatements == UpStatements \o DownStatements

\* C11: every emitted block, in either direction, has a non-empty
\* Conditional only if its Loop flag is true.
C11_ConditionalOnlyInLoop ==
    \A k \in 1..Len(AllStatements) :
        AllStatements[k].Conditional # << >> => AllStatements[k].Loop

C11_Witness ==
    /\ pc = "done"
    /\ err = ErrNone
    /\ Len(UpStatements) = 2
    /\ UpStatements[1].Loop
    /\ UpStatements[1].Conditional # << >>
    /\ ~UpStatements[2].Loop
    /\ UpStatements[2].Conditional = << >>

---------------------------------------------------------------------------
(* C12 *)

\* the lines of a buffer: the pieces its newlines end
RECURSIVE LinesFrom(_, _, _)
LinesFrom(text, i, line) ==
    IF i > Len(text)
    THEN IF line = << >> THEN << >> ELSE << line >>
    ELSE IF text[i] = NL
         THEN << line >> \o LinesFrom(text, i + 1, << >>)
         ELSE LinesFrom(text, i + 1, Append(line, text[i]))

LinesOf(text) == LinesFrom(text, 1, << >>)

IsAnnotationOrSeparator(line) ==
    \/ HasPrefix(line, sqlCmdPrefix)
    \/ Len(LineSeparator) > 0 /\ line = LineSeparator

NoAnnotationIn(text) ==
    \A i \in 1..Len(LinesOf(text)) : ~IsAnnotationOrSeparator(LinesOf(text)[i])

\* C12: a line that starts with the command prefix, or that is the
\* configured line separator, is in no buffer and in no emitted block's text
\* or conditional text.
C12_NoAnnotationInText ==
    /\ NoAnnotationIn(statementBuf)
    /\ NoAnnotationIn(conditionalBuf)
    /\ \A k \in 1..Len(AllStatements) :
           /\ NoAnnotationIn(AllStatements[k].Statement)
           /\ NoAnnotationIn(AllStatements[k].Conditional)

---------------------------------------------------------------------------
(* C13 *)

\* a non-blank content line: no annotation, no comment, not the separator
IsCountedLine(line) ==
    /\ ~HasPrefix(line, DoubleDash)
    /\ TrimSpace(line) # << >>
    /\ ~(Len(LineSeparator) > 0 /\ line = LineSeparator)

\* the counted lines of the script read in direction dir, in source order
RECURSIVE SectionFrom(_, _, _)
SectionFrom(lines, i, dir) ==
    IF i > Len(lines) THEN << >>
    ELSE (IF IsCountedLine(lines[i]) /\ DirectionBefore(lines, i) = dir
          THEN << lines[i] >> ELSE << >>)
         \o SectionFrom(lines, i + 1, dir)

\* the counted lines of the blocks' Statement texts, concatenated
RECURSIVE TextFrom(_, _)
TextFrom(blocks, k) ==
    IF k > Len(blocks) THEN << >>
    ELSE SelectSeq(LinesOf(blocks[k].Statement), IsCountedLine)
         \o TextFrom(blocks, k + 1)

\* the counted lines of the blocks' Conditional texts, concatenated
RECURSIVE ConditionalFrom(_, _)
ConditionalFrom(blocks, k) ==
    IF k > Len(blocks) THEN << >>
    ELSE SelectSeq(LinesOf(blocks[k].Conditional), IsCountedLine)
         \o ConditionalFrom(blocks, k + 1)

\* src is a and b interleaved, each in its own order
RECURSIVE IsMerge(_, _, _)
IsMerge(src, a, b) ==
    IF src = << >> THEN a = << >> /\ b = << >>
    ELSE \/ a # << >> /\ Head(a) = Head(src) /\ IsMerge(Tail(src), Tail(a), b)
         \/ b # << >> /\ Head(b) = Head(src) /\ IsMerge(Tail(src), a, Tail(b))

EndsLines(text) == text = << >> \/ Last(text) = NL

\* C13: in a returned document the non-blank content lines of each
\* direction's section are, each exactly once and whole (newline-ended), the
\* lines of that direction's blocks: the Statement texts concatenated hold
\* them in source order, the lines of a conditional sub-region being held,
\* in source order too, by the Conditional texts instead; none is lost,
\* duplicated or moved to the other direction.
C13_ContentPreserved ==
    (pc = "done" /\ err = ErrNone) =>
        \A dir \in { directionUp, directionDown } :
            /\ IsMerge(SectionFrom(script, 1, dir),
                       TextFrom(StatementsOf(dir), 1),
                       ConditionalFrom(StatementsOf(dir), 1))
            /\ \A k \in 1..Len(StatementsOf(dir)) :
                   /\ EndsLines(StatementsOf(dir)[k].Statement)
                   /\ EndsLines(StatementsOf(dir)[k].Conditional)

C13_Witness ==
    /\ pc = "done"
    /\ err = ErrNone
    /\ TextFrom(UpStatements, 1) = << LineSql >>
    /\ ConditionalFrom(UpStatements, 1) = << LineOpen >>
    /\ Len(UpStatements) = 1
    /\ DownStatements = << >>

---------------------------------------------------------------------------
(* C14 *)

\* nothing of the parse but the count of lines read changes, and no error
Discarded ==
    /\ pc' = "scan"
    /\ err' = ErrNone
    /\ UNCHANGED << statementBuf, conditionalBuf, statementEnded,
                    ignoreSemicolons, currentDirection, isLoop, isConditional,
                    UpStatements, DownStatements, DisableTransactionUp,
                    DisableTransactionDown >>

---------------------------------------------------------------------------
(* C15 *)

\* C15: only legal flag combinations are reachable: after any line of any
\* input, isConditional implies isLoop, and isLoop implies ignoreSemicolons.
C15_LegalFlags ==
    /\ isConditional => isLoop
    /\ isLoop => ignoreSemicolons

C15_Witness ==
    /\ pc = "scan"
    /\ Len(script) = 3
    /\ Last(script) = LineOpen
    /\ isConditional
    /\ isLoop
    /\ ignoreSemicolons

---------------------------------------------------------------------------
(* C16 *)

\* the step appended a block marked as a loop to one of the sequences
EmittedLoopBlock ==
    \/ Len(UpStatements') > Len(UpStatements) /\ Last(UpStatements').Loop
    \/ Len(DownStatements') > Len(DownStatements) /\ Last(DownStatements').Loop

\* C16: a LoopEnd command seen while a conditional sub-block is open fails
\* with UnclosedConditional and emits nothing; no loop block is ever emitted
\* by a step that starts or ends with isConditional true.
C16_LoopEndInConditional ==
    [][ /\ (Scanned /\ isConditional /\ ScannedLine = LineLoopEnd)
            => (pc' = "abort" /\ err' = ErrUnclosedConditional /\ EmittedNone)
        /\ (Scanned /\ EmittedLoopBlock)
            => (~isConditional /\ ~isConditional') ]_vars

C16_Witness ==
    /\ pc = "abort"
    /\ err = ErrUnclosedConditional
    /\ Last(script) = LineLoopEnd
    /\ isConditional
    /\ conditionalBuf # << >>
    /\ UpStatements = << >>
    /\ DownStatements = << >>

---------------------------------------------------------------------------
(* C17 *)

\* the step ran on an End marker that has nothing to close
StrayEnd ==
    /\ Scanned
    /\ \/ ScannedLine = LineLoopEnd /\ ~isLoop
       \/ ScannedLine = LineConditionalEnd /\ ~isConditional
       \/ ScannedLine = LineStatementEnd /\ ~(ignoreSemicolons /\ ~isLoop)

\* C17: a stray End marker is a no-op: a LoopEnd seen while no loop is open,
\* a ConditionalEnd seen while no conditional is open and a StatementEnd seen
\* while no explicit statement block is open raise no error, emit no block
\* and leave the direction, the flags, both buffers and both sequences
\* unchanged.
C17_StrayEndNoOp == [][ StrayEnd => Discarded ]_vars

---------------------------------------------------------------------------
(* C18 *)

\* the buffer `buf` as it stands when the iteration reaches the flush:
\* the line of the iteration has been appended to it, or it has not
AtFlush(buf) == { buf, buf \o ScannedLine \o << NL >> }

\* C18: every flush appends exactly one block, built from the current
\* statement buffer, isLoop and conditional buffer, to the sequence of the
\* current direction only, leaves the other sequence and both
\* disable-transaction flags unchanged, and ends with statementEnded false,
\* isLoop false and both buffers empty.
C18_FlushFrame ==
    [][ (Scanned /\ ~EmittedNone) =>
          /\ \E text \in AtFlush(statementBuf) :
             \E conditional \in AtFlush(conditionalBuf) :
                EmittedOne(currentDirection,
                           migrationStatement(text, isLoop, conditional))
          /\ currentDirection' = currentDirection
          /\ DisableTransactionUp' = DisableTransactionUp
          /\ DisableTransactionDown' = DisableTransactionDown
          /\ ~statementEnded'
          /\ ~isLoop'
          /\ statementBuf' = << >>
          /\ conditionalBuf' = << >> ]_vars

C18_Witness ==
    /\ pc = "scan"
    /\ Len(script) = 6
    /\ Last(script) = LineLoopEnd
    /\ currentDirection = directionDown
    /\ UpStatements = << >>
    /\ Len(DownStatements) = 1
    /\ DownStatements[1].Loop
    /\ DownStatements[1].Conditional = LineConditionalBegin \o << NL >> \o LineOpen \o << NL >>
    /\ DisableTransactionDown
    /\ ~DisableTransactionUp
    /\ statementBuf = << >>
    /\ conditionalBuf = << >>
    /\ ~isLoop
    /\ ~statementEnded

---------------------------------------------------------------------------
(* C19 *)

\* `a` is a prefix of `b`
IsPrefix(a, b) == Len(a) <= Len(b) /\ SubSeq(b, 1, Len(a)) = a

\* C19: the output only grows: on every step each sequence of emitted blocks
\* is a prefix of its next value, and a disable-transaction flag that is
\* true stays true.
C19_OutputOnlyGrows ==
    [][ /\ IsPrefix(UpStatements, UpStatements')
        /\ IsPrefix(DownStatements, DownStatements')
        /\ DisableTransactionUp => DisableTransactionUp'
        /\ DisableTransactionDown => DisableTransactionDown' ]_vars

C19_Witness ==
    /\ pc = "scan"
    /\ script = << LineDownNoTx, LineSql, LineDown >>
    /\ DisableTransactionDown
    /\ DownStatements = << migrationStatement(LineSql \o << NL >>, FALSE, << >>) >>

---------------------------------------------------------------------------
(* C20 *)

IsBlank(text) == TrimSpace(text) = << >>

\* C20 as claimed: every emitted block, for any input and any separator,
\* has a text with at least one non-whitespace character.
C20_NoBlankBlock ==
    \A k \in 1..Len(AllStatements) : ~IsBlank(AllStatements[k].Statement)

\* the block the step emitted
EmittedBlock ==
    IF Len(UpStatements') > Len(UpStatements)
    THEN Last(UpStatements')
    ELSE Last(DownStatements')

\* the step's line flushes without being accumulated: the configured
\* separator, or StatementEnd
FlushesBufferOnly ==
    \/ Len(LineSeparator) > 0 /\ ScannedLine = LineSeparator
    \/ ScannedLine = LineStatementEnd

\* C20 as amended: a block emitted by a line that ends in a semicolon or by
\* LoopEnd has a text with a non-whitespace character; a block emitted by a
\* separator line or by StatementEnd has the text of the buffer as it was,
\* which is empty or blank exactly when nothing but blank lines were
\* accumulated before it.
C20_BlankOnlyFromEmptyBuffer ==
    [][ (Scanned /\ ~EmittedNone) =>
          IF FlushesBufferOnly
          THEN /\ EmittedBlock.Statement = statementBuf
               /\ IsBlank(EmittedBlock.Statement) <=> IsBlank(statementBuf)
          ELSE ~IsBlank(EmittedBlock.Statement) ]_vars

C20_Witness ==
    /\ pc = "scan"
    /\ LineSeparator = LineGo
    /\ script = << LineSql, LineGo >>
    /\ UpStatements = << migrationStatement(LineSql \o << NL >>, FALSE, << >>),
                         migrationStatement(<< >>, FALSE, << >>) >>

====
